---- MODULE Spec2Model ----
(***************************************************************************)
(* A model of the pdp-1 REST API (src/server.js, models/order): the        *)
(* process bootstrap, the three collections (users, products, orders) and  *)
(* one action per route handler, split at the awaits where a handler makes *)
(* more than one database call.                                            *)
(*                                                                         *)
(* Conventions.                                                            *)
(*  - A string that the code inspects character by character (a product    *)
(*    name, the search, skip and limit query parameters) is a sequence of  *)
(*    one-character strings.  A query parameter that is absent is the      *)
(*    empty sequence: every use in the code (if (search), sort || 'name',  *)
(*    parseInt(x) || d) treats undefined and "" alike.                     *)
(*  - An identifier sent by a client is an integer: -1 is a string that    *)
(*    is no ObjectId (mongoose throws a CastError), 0 is a well-formed     *)
(*    ObjectId that was never allocated, n >= 1 is the n-th ObjectId       *)
(*    allocated in its collection.  ObjectIds are never reused.            *)
(*  - A price is a number of cents.                                        *)
(*  - A response message is named by a key instead of its Ukrainian text.  *)
(***************************************************************************)
EXTENDS Integers, Sequences, FiniteSets, TLC

VARIABLES
    boot,       \* position of the bootstrap promise chain (server.js 266-277)
    log,        \* what the bootstrap has written with console.log
    users,      \* collection users:    id -> document
    products,   \* collection products: id -> document
    orders,     \* collection orders:   id -> document
    lastUserId, lastProductId, lastOrderId, \* ObjectIds allocated so far
    reqs,       \* number of requests accepted so far
    inflight,   \* slot -> context of a handler suspended at an await
    res         \* the response being sent, if any

vars == <<boot, log, users, products, orders, lastUserId, lastProductId,
          lastOrderId, reqs, inflight, res>>

db == <<users, products, orders, lastUserId, lastProductId, lastOrderId>>

(***************************************************************************)
(* Bounds of the model.                                                    *)
(***************************************************************************)
\* Requests the clients send in one run.
MaxRequests == 4
\* Handlers suspended at an await at the same time.
MaxInFlight == 1

(***************************************************************************)
(* Program constants.                                                      *)
(***************************************************************************)
UserSeedCount == 10
ProductSeedCount == 10
DefaultSkip == 0
DefaultLimit == 10

(***************************************************************************)
(* Seed generator (server.js 9-23).  chance is a pseudo-random generator:  *)
(* the records of a seeding are a function of the outcome s the generator  *)
(* has for it.                                                             *)
(***************************************************************************)
Words == << <<"a">>, <<"b">>, <<"c">>, <<"a","a">>, <<"a","b">>, <<"a","c">>,
            <<"b","a">>, <<"b","b">>, <<"b","c">>, <<"c","a">> >>

\* chance.word(): a lower-case word; outcome 1 draws ten different words, the
\* other outcomes may repeat a word.
ChanceWord(s, i) == IF s = 1 THEN Words[i] ELSE Words[((i * s) % 10) + 1]

generateUserData(s, i) ==
    [firstName |-> 100 * s + i, lastName |-> 200 * s + i, email |-> 300 * s + i]

generateProductData(s, i) ==
    [name     |-> ChanceWord(s, i),
     quantity |-> 1 + ((7 * i + s) % 100),
     price    |-> 100 + ((3700 * i + 1300 * s) % 99901),
     image    |-> 400 * s + i]

(***************************************************************************)
(* Data access layer: the mongoose calls the handlers make.                *)
(***************************************************************************)
IsObjectId(id) == id >= 0

\* A stored document as it is serialised: the record with its identifier.
Doc(id, d) == [id |-> id] @@ d

\* A lookup that answers for any well-formed identifier.
FindByIdAlways(coll, id) == TRUE

\* Model.findById(id): the document, or null.
FindById(coll, id) == id \in DOMAIN coll

\* Model.insertMany(docs): every document gets a fresh ObjectId.
InsertMany(coll, last, docs) ==
    coll @@ [k \in (last + 1)..(last + Len(docs)) |-> docs[k - last]]

\* document.save() of a new document.
Save(coll, id, doc) == coll @@ (id :> doc)

\* Model.findByIdAndUpdate(id, fields, {new: true}): the named fields are set
\* in the collection ...
FindByIdAndUpdate(coll, id, fields) == [coll EXCEPT ![id] = fields]

\* Without {new: true}: the document as it was before.
updatedProductOld(coll, id, fields) == Doc(id, coll[id])

\* ... and, with {new: true}, the document is returned as it is afterwards.
updatedProduct(coll, id, fields) == Doc(id, FindByIdAndUpdate(coll, id, fields)[id])

\* Model.findByIdAndDelete(id) returns the document it removed.
deletedProduct(coll, id) == Doc(id, coll[id])

\* A deleteMany that takes every document with the same name along.
FindByIdAndDeleteByName(coll, id) ==
    [k \in {j \in DOMAIN coll : coll[j].name # coll[id].name} |-> coll[k]]

\* Model.findByIdAndDelete(id).
FindByIdAndDelete(coll, id) == [k \in DOMAIN coll \ {id} |-> coll[k]]

(***************************************************************************)
(* Requests and responses.                                                 *)
(***************************************************************************)
NoReq == [route |-> "none"]

Response(rq, status, message, docs) ==
    [req |-> rq, status |-> status, message |-> message, docs |-> docs]

NoResponse == Response(NoReq, 0, "", <<>>)

\* A handler runs to its next await or to its response without interruption;
\* the response it writes is on the wire until express has flushed it.
Idle == res = NoResponse

\* The listener takes a request.
Accepting == boot = "listening" /\ reqs < MaxRequests /\ Idle

\* The handler suspends at an await: its context waits in a free slot.
FreeSlots == (1..MaxInFlight) \ DOMAIN inflight

Suspend(c) == inflight' = inflight @@ ((CHOOSE k \in FreeSlots : TRUE) :> c)

\* Identifiers a client sends: the two oldest of a collection, one that was
\* never allocated, and a string that is no ObjectId.
ClientIds == {-1, 0, 1, 2}

\* Outcomes of the chance generator that are told apart.
SeedOutcomes == {1, 2}

ProductBodies ==
    { [name |-> <<"A">>,      quantity |-> 5, price |-> 1000, image |-> 1],
      [name |-> <<"a","b">>,  quantity |-> 5, price |-> 2050, image |-> 2],
      [name |-> <<"B","a">>,  quantity |-> 7, price |-> 3050, image |-> 3] }

(***************************************************************************)
(* Process bootstrap (server.js 265-277).                                  *)
(***************************************************************************)
Init ==
    /\ boot = "connecting"
    /\ log = <<>>
    /\ users = <<>>
    /\ products = <<>>
    /\ orders = <<>>
    /\ lastUserId = 0
    /\ lastProductId = 0
    /\ lastOrderId = 0
    /\ reqs = 0
    /\ inflight = <<>>
    /\ res = NoResponse

\* mongoose.connect resolves: .then logs and calls app.listen.
AfterConnect == "binding"

\* A catch that goes on to start the listener.
AfterConnectErrorListens == "binding"

\* mongoose.connect rejects: .catch logs the error; nothing else runs.
AfterConnectError == "failed"

ConnectResolved ==
    /\ boot = "connecting"
    /\ boot' = AfterConnect
    /\ log' = Append(log, "connected to MongoDB")
    /\ UNCHANGED <<db, reqs, inflight, res>>

ConnectRejected ==
    /\ boot = "connecting"
    /\ boot' = AfterConnectError
    /\ log' = Append(log, "error")
    /\ UNCHANGED <<db, reqs, inflight, res>>

\* app.listen's callback: the port is bound.
Listening ==
    /\ boot = "binding"
    /\ boot' = "listening"
    /\ log' = Append(log, "Node API app is running on port 3000")
    /\ UNCHANGED <<db, reqs, inflight, res>>

\* app.listen cannot bind the port: the server emits 'error', nobody listens
\* for it, and the process ends without the callback having run.
ListenError ==
    /\ boot = "binding"
    /\ boot' = "crashed"
    /\ UNCHANGED <<log, db, reqs, inflight, res>>

\* express has written the response to the client.
ResponseFlushed ==
    /\ ~Idle
    /\ res' = NoResponse
    /\ UNCHANGED <<boot, log, db, reqs, inflight>>

(***************************************************************************)
(* GET /add-initial-data (server.js 27-40).                                *)
(***************************************************************************)
usersData(s) == [i \in 1..UserSeedCount |-> generateUserData(s, i)]

\* One product short.
productsDataShort(s) == [i \in 1..(ProductSeedCount - 1) |-> generateProductData(s, i)]

productsData(s) == [i \in 1..ProductSeedCount |-> generateProductData(s, i)]

SeedReq == [route |-> "GET /add-initial-data"]

\* Lines 29-30: the request arrives, the users are generated and inserted.
AddInitialDataUsers ==
    /\ Accepting
    /\ FreeSlots # {}
    /\ reqs' = reqs + 1
    /\ \E s \in SeedOutcomes, dbOk \in BOOLEAN :
         IF dbOk
         THEN /\ users' = InsertMany(users, lastUserId, usersData(s))
              /\ lastUserId' = lastUserId + Len(usersData(s))
              /\ Suspend([req |-> SeedReq, pc |-> "insertProducts", chance |-> s])
              /\ UNCHANGED res
         ELSE /\ res' = Response(SeedReq, 500, "seed_error", <<>>)
              /\ UNCHANGED <<users, lastUserId, inflight>>
    /\ UNCHANGED <<boot, log, products, orders, lastProductId, lastOrderId>>

Finish(n) == [k \in DOMAIN inflight \ {n} |-> inflight[k]]

\* Lines 32-35: the products are generated and inserted, then 200.
AddInitialDataProducts ==
    /\ Idle
    /\ \E n \in DOMAIN inflight :
         /\ inflight[n].pc = "insertProducts"
         /\ inflight' = Finish(n)
         /\ \E dbOk \in BOOLEAN :
              IF dbOk
              THEN /\ products' = InsertMany(products, lastProductId,
                                             productsData(inflight[n].chance))
                   /\ lastProductId' = lastProductId + Len(productsData(inflight[n].chance))
                   /\ res' = Response(SeedReq, 200, "seed_ok", <<>>)
              ELSE /\ res' = Response(SeedReq, 500, "seed_error", <<>>)
                   /\ UNCHANGED <<products, lastProductId>>
    /\ UNCHANGED <<boot, log, users, orders, lastUserId, lastOrderId, reqs>>

(***************************************************************************)
(* POST /create-order (server.js 41-69).                                   *)
(***************************************************************************)
CreateOrderReq(userId, productId) ==
    [route |-> "POST /create-order", userId |-> userId, productId |-> productId]

\* Line 46: the request arrives and the user is looked up.
CreateOrderFindUser ==
    /\ Accepting
    /\ FreeSlots # {}
    /\ reqs' = reqs + 1
    /\ \E userId \in ClientIds, productId \in ClientIds, dbOk \in BOOLEAN :
         LET rq == CreateOrderReq(userId, productId) IN
         IF dbOk /\ IsObjectId(userId)
         THEN /\ Suspend([req |-> rq, pc |-> "findProduct",
                       userExists |-> FindById(users, userId)])
              /\ UNCHANGED res
         ELSE /\ res' = Response(rq, 500, "create_order_error", <<>>)
              /\ UNCHANGED inflight
    /\ UNCHANGED <<boot, log, db>>

\* Lines 47-60: the product is looked up, both results are tested and the
\* new Order is constructed.
CreateOrderFindProduct ==
    /\ Idle
    /\ \E n \in DOMAIN inflight, dbOk \in BOOLEAN :
         LET c == inflight[n] IN
         /\ c.pc = "findProduct"
         /\ IF ~(dbOk /\ IsObjectId(c.req.productId))
            THEN /\ res' = Response(c.req, 500, "create_order_error", <<>>)
                 /\ inflight' = Finish(n)
            ELSE IF ~c.userExists
            THEN /\ res' = Response(c.req, 400, "user_not_found", <<>>)
                 /\ inflight' = Finish(n)
            ELSE IF ~FindById(products, c.req.productId)
            THEN /\ res' = Response(c.req, 400, "product_not_found", <<>>)
                 /\ inflight' = Finish(n)
            ELSE /\ inflight' = [inflight EXCEPT ![n] =
                        [req |-> c.req, pc |-> "save", userExists |-> c.userExists,
                         productExists |-> FindById(products, c.req.productId)]]
                 /\ UNCHANGED res
    /\ UNCHANGED <<boot, log, db, reqs>>

\* new Order({createdAt, userId, productId}); the Date is not modelled.
newOrder(userId, productId) == [userId |-> userId, productId |-> productId]

\* orderSchema: userId and productId are required ObjectIds.
orderSchema(doc) == IsObjectId(doc.userId) /\ IsObjectId(doc.productId)

\* A write that looks the product up again and refuses when it is gone.
CreateOrderSaveChecked ==
    /\ Idle
    /\ \E n \in DOMAIN inflight, dbOk \in BOOLEAN :
         LET c == inflight[n] IN
         /\ c.pc = "save"
         /\ inflight' = Finish(n)
         /\ IF ~dbOk
            THEN /\ res' = Response(c.req, 500, "create_order_error", <<>>)
                 /\ UNCHANGED <<orders, lastOrderId>>
            ELSE IF ~FindById(products, c.req.productId)
            THEN /\ res' = Response(c.req, 400, "product_not_found", <<>>)
                 /\ UNCHANGED <<orders, lastOrderId>>
            ELSE /\ orders' = Save(orders, lastOrderId + 1,
                                   newOrder(c.req.userId, c.req.productId))
                 /\ lastOrderId' = lastOrderId + 1
                 /\ res' = Response(c.req, 201, "order_created", <<>>)
    /\ UNCHANGED <<boot, log, users, products, lastUserId, lastProductId, reqs>>

\* Lines 62-64: the Order is written, then 201.
CreateOrderSave ==
    /\ Idle
    /\ \E n \in DOMAIN inflight, dbOk \in BOOLEAN :
         LET c == inflight[n] IN
         /\ c.pc = "save"
         /\ inflight' = Finish(n)
         /\ IF dbOk /\ orderSchema(newOrder(c.req.userId, c.req.productId))
            THEN /\ orders' = Save(orders, lastOrderId + 1,
                                   newOrder(c.req.userId, c.req.productId))
                 /\ lastOrderId' = lastOrderId + 1
                 /\ res' = Response(c.req, 201, "order_created", <<>>)
            ELSE /\ res' = Response(c.req, 500, "create_order_error", <<>>)
                 /\ UNCHANGED <<orders, lastOrderId>>
    /\ UNCHANGED <<boot, log, users, products, lastUserId, lastProductId, reqs>>

(***************************************************************************)
(* Products CRUD (server.js 72-136).                                       *)
(***************************************************************************)
\* POST /products.
PostProducts ==
    /\ Accepting
    /\ reqs' = reqs + 1
    /\ \E body \in ProductBodies, dbOk \in BOOLEAN :
         LET rq == [route |-> "POST /products", body |-> body] IN
         IF dbOk
         THEN /\ products' = Save(products, lastProductId + 1, body)
              /\ lastProductId' = lastProductId + 1
              /\ res' = Response(rq, 201, "",
                                 <<Doc(lastProductId + 1, body)>>)
         ELSE /\ res' = Response(rq, 500, "create_product_error", <<>>)
              /\ UNCHANGED <<products, lastProductId>>
    /\ UNCHANGED <<boot, log, users, orders, lastUserId, lastOrderId, inflight>>

RECURSIVE SeqOfSet(_)
\* The elements of a finite set of integers in ascending order.
SeqOfSet(S) ==
    IF S = {} THEN <<>>
    ELSE LET m == CHOOSE x \in S : \A y \in S : x <= y
         IN  <<m>> \o SeqOfSet(S \ {m})

\* Model.find(): the documents in natural (insertion) order.
Find(coll) ==
    LET ids == SeqOfSet(DOMAIN coll)
    IN  [i \in 1..Len(ids) |-> Doc(ids[i], coll[ids[i]])]

\* GET /products-list.
ProductsList ==
    /\ Accepting
    /\ reqs' = reqs + 1
    /\ \E dbOk \in BOOLEAN :
         LET rq == [route |-> "GET /products-list"] IN
         IF dbOk
         THEN res' = Response(rq, 200, "", Find(products))
         ELSE res' = Response(rq, 500, "list_error", <<>>)
    /\ UNCHANGED <<boot, log, db, inflight>>

\* PUT /products/:productId.
PutProduct ==
    /\ Accepting
    /\ reqs' = reqs + 1
    /\ \E productId \in ClientIds, body \in ProductBodies, dbOk \in BOOLEAN :
         LET rq == [route |-> "PUT /products", productId |-> productId, body |-> body] IN
         IF ~(dbOk /\ IsObjectId(productId))
         THEN /\ res' = Response(rq, 500, "update_product_error", <<>>)
              /\ UNCHANGED products
         ELSE IF ~FindById(products, productId)
         THEN /\ res' = Response(rq, 404, "product_not_found", <<>>)
              /\ UNCHANGED products
         ELSE /\ products' = FindByIdAndUpdate(products, productId, body)
              /\ res' = Response(rq, 200, "", <<updatedProduct(products, productId, body)>>)
    /\ UNCHANGED <<boot, log, users, orders, lastUserId, lastProductId, lastOrderId, inflight>>

\* A delete that cascades to the orders of the product.
DeleteProductCascade ==
    /\ Accepting
    /\ reqs' = reqs + 1
    /\ \E productId \in ClientIds, dbOk \in BOOLEAN :
         LET rq == [route |-> "DELETE /products", productId |-> productId] IN
         IF ~(dbOk /\ IsObjectId(productId))
         THEN /\ res' = Response(rq, 500, "delete_product_error", <<>>)
              /\ UNCHANGED <<products, orders>>
         ELSE IF ~FindById(products, productId)
         THEN /\ res' = Response(rq, 404, "product_not_found", <<>>)
              /\ UNCHANGED <<products, orders>>
         ELSE /\ products' = FindByIdAndDelete(products, productId)
              /\ orders' = [k \in {j \in DOMAIN orders : orders[j].productId # productId}
                               |-> orders[k]]
              /\ res' = Response(rq, 200, "", <<deletedProduct(products, productId)>>)
    /\ UNCHANGED <<boot, log, users, lastUserId, lastProductId, lastOrderId, inflight>>

\* DELETE /products/:productId.
DeleteProduct ==
    /\ Accepting
    /\ reqs' = reqs + 1
    /\ \E productId \in ClientIds, dbOk \in BOOLEAN :
         LET rq == [route |-> "DELETE /products", productId |-> productId] IN
         IF ~(dbOk /\ IsObjectId(productId))
         THEN /\ res' = Response(rq, 500, "delete_product_error", <<>>)
              /\ UNCHANGED products
         ELSE IF ~FindById(products, productId)
         THEN /\ res' = Response(rq, 404, "product_not_found", <<>>)
              /\ UNCHANGED products
         ELSE /\ products' = FindByIdAndDelete(products, productId)
              /\ res' = Response(rq, 200, "", <<deletedProduct(products, productId)>>)
    /\ UNCHANGED <<boot, log, users, orders, lastUserId, lastProductId, lastOrderId, inflight>>

(***************************************************************************)
(* GET /products (server.js 139-173): search, sort, skip, limit.           *)
(***************************************************************************)
CharCode(c) ==
    CASE c = "(" -> 40 [] c = "-" -> 45 [] c = "." -> 46
      [] c = "0" -> 48 [] c = "1" -> 49 [] c = "2" -> 50 [] c = "3" -> 51
      [] c = "4" -> 52 [] c = "5" -> 53 [] c = "6" -> 54 [] c = "7" -> 55
      [] c = "8" -> 56 [] c = "9" -> 57
      [] c = "A" -> 65 [] c = "B" -> 66 [] c = "C" -> 67
      [] c = "a" -> 97 [] c = "b" -> 98 [] c = "c" -> 99 [] c = "x" -> 120

IsDigit(c) == CharCode(c) >= 48 /\ CharCode(c) <= 57

RECURSIVE DigitPrefix(_)
\* The longest prefix of s made of digits.
DigitPrefix(s) ==
    IF s = <<>> \/ ~IsDigit(s[1]) THEN <<>> ELSE <<s[1]>> \o DigitPrefix(Tail(s))

RECURSIVE DecimalValue(_)
DecimalValue(ds) ==
    IF ds = <<>> THEN 0
    ELSE 10 * DecimalValue(SubSeq(ds, 1, Len(ds) - 1)) + (CharCode(ds[Len(ds)]) - 48)

\* parseInt(s): an optional sign, then the leading digits; NaN without a digit.
ParseInt(s) ==
    LET signed == s # <<>> /\ s[1] = "-"
        digits == DigitPrefix(IF signed THEN Tail(s) ELSE s)
    IN  IF digits = <<>> THEN [nan |-> TRUE, val |-> 0]
        ELSE [nan |-> FALSE,
              val |-> IF signed THEN 0 - DecimalValue(digits) ELSE DecimalValue(digits)]

\* parseInt(x) || d: NaN and 0 are falsy.
OrDefault(p, d) == IF p.nan \/ p.val = 0 THEN d ELSE p.val

\* Flag 'i': a letter matches in either case.
LowerCase(c) == CASE c = "A" -> "a" [] c = "B" -> "b" [] c = "C" -> "c" [] OTHER -> c

\* new RegExp(search, 'i') throws a SyntaxError on an unbalanced parenthesis.
RegExpCompiles(pattern) == \A i \in 1..Len(pattern) : pattern[i] # "("

\* $regex: the pattern matches somewhere in the name; "." matches any character.
RegExpTest(pattern, name) ==
    \E at \in 0..(Len(name) - Len(pattern)) :
        \A i \in 1..Len(pattern) :
            \/ pattern[i] = "."
            \/ LowerCase(pattern[i]) = LowerCase(name[at + i])

RECURSIVE StrLess(_, _)
\* Binary comparison of two strings (MongoDB's default collation).
StrLess(s, t) ==
    IF t = <<>> THEN FALSE
    ELSE IF s = <<>> THEN TRUE
    ELSE IF s[1] # t[1] THEN CharCode(s[1]) < CharCode(t[1])
    ELSE StrLess(Tail(s), Tail(t))

\* $sort {[field]: 1}: a before b.  A field no document has orders nothing.
SortsBefore(a, b, field) ==
    CASE field = "name"     -> StrLess(a.name, b.name)
      [] field = "quantity" -> a.quantity < b.quantity
      [] field = "price"    -> a.price < b.price
      [] field = "image"    -> a.image < b.image
      [] OTHER              -> FALSE

RECURSIVE SortStage(_, _, _)
\* $sort: ascending on the field.  MongoDB leaves the order of documents with
\* equal keys open: natural says whether they keep their natural order or come
\* out reversed.
SortStage(docs, field, natural) ==
    IF docs = <<>> THEN <<>>
    ELSE LET rest == SortStage(SubSeq(docs, 1, Len(docs) - 1), field, natural)
             d == docs[Len(docs)]
             before == Cardinality({i \in 1..Len(rest) :
                          IF natural THEN ~SortsBefore(d, rest[i], field)
                                     ELSE SortsBefore(rest[i], d, field)})
         IN  SubSeq(rest, 1, before) \o <<d>> \o SubSeq(rest, before + 1, Len(rest))

RECURSIVE MatchStage(_, _)
\* $match {name: {$regex}}.
MatchStage(docs, pattern) ==
    IF docs = <<>> THEN <<>>
    ELSE (IF RegExpTest(pattern, docs[1].name) THEN <<docs[1]>> ELSE <<>>)
         \o MatchStage(Tail(docs), pattern)

SkipStage(docs, n) == SubSeq(docs, n + 1, Len(docs))

LimitStage(docs, n) == SubSeq(docs, 1, IF n < Len(docs) THEN n ELSE Len(docs))

sortField(sort) == IF sort = "" THEN "name" ELSE sort

skipValue(skip) == OrDefault(ParseInt(skip), DefaultSkip)

limitValue(limit) == OrDefault(ParseInt(limit), DefaultLimit)

\* Product.aggregate rejects a negative $skip and a $limit that is not positive.
PipelineAccepted(skip, limit) == skipValue(skip) >= 0 /\ limitValue(limit) > 0

\* Product.aggregate(aggregationPipeline) over the documents of the collection.
Aggregate(docs, q, natural) ==
    LimitStage(
        SkipStage(
            SortStage(IF q.search # <<>> THEN MatchStage(docs, q.search) ELSE docs,
                      sortField(q.sort), natural),
            skipValue(q.skip)),
        limitValue(q.limit))

SearchInputs == { <<>>, <<"a">>, <<".">>, <<"(">> }
SortInputs == { "quantity", "price" }
SkipInputs == { <<>>, <<"1">>, <<"-", "1">> }
LimitInputs == { <<>>, <<"0">>, <<"2">>, <<"1", "x">> }

Query(search, sort, skip, limit) ==
    [route |-> "GET /products", search |-> search, sort |-> sort,
     skip |-> skip, limit |-> limit]

\* The query strings the clients send: a search with a limit (sorted on the
\* default field), a sort with a skip, or a skip with a limit.
Queries ==
    { Query(s, "", <<>>, l) : s \in SearchInputs, l \in LimitInputs } \cup
    { Query(<<>>, f, k, <<>>) : f \in SortInputs, k \in SkipInputs } \cup
    { Query(<<>>, "", k, l) : k \in SkipInputs, l \in LimitInputs }

GetProducts ==
    /\ Accepting
    /\ reqs' = reqs + 1
    /\ LET docs == Find(products) IN
       \E q \in Queries, dbOk \in BOOLEAN, natural \in BOOLEAN :
         IF /\ dbOk
            /\ q.search # <<>> => RegExpCompiles(q.search)
            /\ PipelineAccepted(q.skip, q.limit)
         THEN res' = Response(q, 200, "", Aggregate(docs, q, natural))
         ELSE res' = Response(q, 500, "list_error", <<>>)
    /\ UNCHANGED <<boot, log, db, inflight>>

(***************************************************************************)
(* GET /products-statistic (server.js 176-212).                            *)
(***************************************************************************)
RECURSIVE Gcd(_, _)
Gcd(a, b) == IF b = 0 THEN a ELSE Gcd(b, a % b)

\* A quotient of two integers, kept exact.
Quotient(a, b) == [num |-> a \div Gcd(a, b), den |-> b \div Gcd(a, b)]

RECURSIVE Contains(_, _)
Contains(seq, x) ==
    IF seq = <<>> THEN FALSE ELSE seq[1] = x \/ Contains(Tail(seq), x)

RECURSIVE GroupStage(_, _)
\* $group {_id: null}: one pass over the documents, folding the accumulators.
GroupStage(docs, acc) ==
    IF docs = <<>> THEN acc
    ELSE LET d == docs[1] IN
         GroupStage(Tail(docs),
            [count |-> acc.count + 1,
             totalPrice  |-> acc.totalPrice + d.price,
             minPrice    |-> IF acc.count = 0 \/ d.price < acc.minPrice
                             THEN d.price ELSE acc.minPrice,
             maxPrice    |-> IF acc.count = 0 \/ d.price > acc.maxPrice
                             THEN d.price ELSE acc.maxPrice,
             uniqueNames |-> IF Contains(acc.uniqueNames, d.name)
                             THEN acc.uniqueNames
                             ELSE Append(acc.uniqueNames, d.name),
             firstProduct |-> IF acc.count = 0 THEN d.name ELSE acc.firstProduct,
             lastProduct  |-> d.name])

EmptyGroup ==
    [count |-> 0, totalPrice |-> 0, minPrice |-> 0, maxPrice |-> 0,
     uniqueNames |-> <<>>, firstProduct |-> <<>>, lastProduct |-> <<>>]

\* A projection with the two extremes taken from each other's accumulator.
ProjectStageSwapped(g) ==
    [avgPrice |-> Quotient(g.totalPrice, g.count),
     totalPrice |-> g.totalPrice,
     minPrice |-> g.maxPrice,
     maxPrice |-> g.minPrice,
     uniqueNames |-> g.uniqueNames,
     firstProductName |-> g.firstProduct,
     lastProductName |-> g.lastProduct]

\* $project: the seven fields of the answer.
ProjectStage(g) ==
    [avgPrice |-> Quotient(g.totalPrice, g.count),
     totalPrice |-> g.totalPrice,
     minPrice |-> g.minPrice,
     maxPrice |-> g.maxPrice,
     uniqueNames |-> g.uniqueNames,
     firstProductName |-> g.firstProduct,
     lastProductName |-> g.lastProduct]

\* The pipeline's result: $group emits no document for an empty collection.
StatisticResult(docs) ==
    IF docs = <<>> THEN <<>> ELSE <<ProjectStage(GroupStage(docs, EmptyGroup))>>

ProductsStatistic ==
    /\ Accepting
    /\ reqs' = reqs + 1
    /\ \E dbOk \in BOOLEAN :
         LET rq == [route |-> "GET /products-statistic"] IN
         IF dbOk
         THEN res' = Response(rq, 200, "", StatisticResult(Find(products)))
         ELSE res' = Response(rq, 500, "statistic_error", <<>>)
    /\ UNCHANGED <<boot, log, db, inflight>>

(***************************************************************************)
(* GET /order-details/:orderId (server.js 215-263).                        *)
(***************************************************************************)
\* $lookup then $unwind: one output per document of `from` whose _id is the
\* local field; an order without a match yields nothing.
LookupUnwind(docs, from, localField, as) ==
    IF docs = <<>> THEN <<>>
    ELSE IF docs[1][localField] \in DOMAIN from
    THEN <<docs[1] @@ (as :> Doc(docs[1][localField], from[docs[1][localField]]))>>
    ELSE <<>>

\* $match {_id: orderId}.
MatchOrder(orderId) ==
    IF orderId \in DOMAIN orders THEN <<Doc(orderId, orders[orderId])>> ELSE <<>>

OrderDetailsResult(orderId) ==
    LookupUnwind(
        LookupUnwind(MatchOrder(orderId), users, "userId", "userDetails"),
        products, "productId", "productDetails")

OrderDetails ==
    /\ Accepting
    /\ reqs' = reqs + 1
    /\ \E orderId \in ClientIds, dbOk \in BOOLEAN :
         LET rq == [route |-> "GET /order-details", orderId |-> orderId] IN
         IF ~(dbOk /\ IsObjectId(orderId))
         THEN res' = Response(rq, 500, "order_details_error", <<>>)
         ELSE IF OrderDetailsResult(orderId) = <<>>
         THEN res' = Response(rq, 404, "order_not_found", <<>>)
         ELSE res' = Response(rq, 200, "", <<OrderDetailsResult(orderId)[1]>>)
    /\ UNCHANGED <<boot, log, db, inflight>>

(***************************************************************************)
(* Specifications.                                                         *)
(***************************************************************************)
\* Every route.
Next ==
    \/ ConnectResolved
    \/ ConnectRejected
    \/ Listening
    \/ ListenError
    \/ ResponseFlushed
    \/ AddInitialDataUsers
    \/ AddInitialDataProducts
    \/ CreateOrderFindUser
    \/ CreateOrderFindProduct
    \/ CreateOrderSave
    \/ PostProducts
    \/ ProductsList
    \/ PutProduct
    \/ DeleteProduct
    \/ GetProducts
    \/ ProductsStatistic
    \/ OrderDetails

Spec == Init /\ [][Next]_vars

\* The clients use the seeding, the order routes and the product deletion.
NextOrders ==
    \/ ConnectResolved
    \/ ConnectRejected
    \/ Listening
    \/ ListenError
    \/ ResponseFlushed
    \/ AddInitialDataUsers
    \/ AddInitialDataProducts
    \/ CreateOrderFindUser
    \/ CreateOrderFindProduct
    \/ CreateOrderSave
    \/ DeleteProduct
    \/ OrderDetails

SpecOrders == Init /\ [][NextOrders]_vars

\* The clients use the seeding and the product CRUD routes.
NextProducts ==
    \/ ConnectResolved
    \/ ConnectRejected
    \/ Listening
    \/ ListenError
    \/ ResponseFlushed
    \/ AddInitialDataUsers
    \/ AddInitialDataProducts
    \/ PostProducts
    \/ ProductsList
    \/ PutProduct
    \/ DeleteProduct

SpecProducts == Init /\ [][NextProducts]_vars

\* The clients use the seeding, product creation and the paginated list.
NextQuery ==
    \/ ConnectResolved
    \/ ConnectRejected
    \/ Listening
    \/ ListenError
    \/ ResponseFlushed
    \/ AddInitialDataUsers
    \/ AddInitialDataProducts
    \/ PostProducts
    \/ GetProducts

SpecQuery == Init /\ [][NextQuery]_vars

\* The clients use the seeding, the routes that change products, and the
\* statistics.
NextStatistic ==
    \/ ConnectResolved
    \/ ConnectRejected
    \/ Listening
    \/ ListenError
    \/ ResponseFlushed
    \/ AddInitialDataUsers
    \/ AddInitialDataProducts
    \/ PostProducts
    \/ PutProduct
    \/ DeleteProduct
    \/ ProductsStatistic

SpecStatistic == Init /\ [][NextStatistic]_vars

(***************************************************************************)
(* Properties.                                                             *)
(***************************************************************************)
\* A handler that makes one database call took a request of the route and
\* answered it in this step.
Answered(route) ==
    /\ reqs' = reqs + 1
    /\ inflight' = inflight
    /\ res'.req.route = route

\* The suspended handler in slot k sends its response in this step.
Completes(k) == k \in DOMAIN inflight /\ k \notin DOMAIN inflight'

\* The request of route `route` is taken in this step and suspends in slot k.
Suspends(k, route) ==
    /\ k \in DOMAIN inflight'
    /\ k \notin DOMAIN inflight
    /\ inflight'[k].req.route = route

\* Every document of old is in new, unchanged.
Extends(old, new) ==
    \A id \in DOMAIN old : id \in DOMAIN new /\ new[id] = old[id]

\* new is old plus exactly n documents.
AddsExactly(old, new, n) ==
    Extends(old, new) /\ Cardinality(DOMAIN new \ DOMAIN old) = n

\* new is old plus one order of the request rq.
OneNewOrder(old, new, rq) ==
    /\ AddsExactly(old, new, 1)
    /\ \A id \in DOMAIN new \ DOMAIN old :
          new[id].userId = rq.userId /\ new[id].productId = rq.productId

IsCreateOrder(c) == c.req.route = "POST /create-order"

\* C1, per step of a create-order request c in slot k.
C1_Step(k) ==
    LET c == inflight[k] IN
    IsCreateOrder(c) =>
      \* the lookup of the product, and the test of both lookups
      /\ (c.pc = "findProduct" /\ (Completes(k) \/ inflight'[k] # c)) =>
           LET missing == ~c.userExists \/ ~(c.req.productId \in DOMAIN products) IN
           /\ missing => Completes(k) /\ res'.status \in {400, 500}
           /\ (Completes(k) /\ res'.status = 400) => missing
           /\ ~Completes(k) => inflight'[k].pc = "save" /\ inflight'[k].productExists
           /\ orders' = orders
      \* the response
      /\ Completes(k) =>
           /\ res'.req = c.req
           /\ res'.status \in {201, 400, 500}
           /\ res'.status = 201 =>
                /\ c.pc = "save" /\ c.userExists /\ c.productExists
                /\ OneNewOrder(orders, orders', c.req)
           /\ res'.status # 201 => orders' = orders

\* C1: POST /create-order persists exactly one new Order with the submitted
\* userId and productId and responds 201 only when both lookups of the
\* request found a record; when the user or the product is missing it
\* responds 400 (500 if the lookup itself fails) and leaves orders unchanged.
\* The user lookup answers whether the user is in the collection.
C1_CreateOrderContract ==
    [][ /\ \A k \in DOMAIN inflight : C1_Step(k)
        /\ \A k \in DOMAIN inflight' :
             Suspends(k, "POST /create-order") =>
               /\ inflight'[k].userExists = (inflight'[k].req.userId \in DOMAIN users)
               /\ orders' = orders
        /\ Answered("POST /create-order") => res'.status = 500 /\ orders' = orders
      ]_vars

\* C1 witness: a 201 for a request whose user and product exist, its order
\* stored with the submitted identifiers.
C1_Witness ==
    /\ res.req.route = "POST /create-order"
    /\ res.status = 201
    /\ \E id \in DOMAIN orders :
         /\ orders[id].userId = res.req.userId
         /\ orders[id].productId = res.req.productId
    /\ res.req.userId \in DOMAIN users
    /\ res.req.productId \in DOMAIN products

\* C2 as claimed: GET /order-details responds 404 only when the order
\* identifier resolves to no Order record (an existing order is answered 200,
\* or 500 when the database call fails).
C2_DetailsForEveryOrder ==
    [][ Answered("GET /order-details") =>
          /\ res'.status = 404 => res'.req.orderId \notin DOMAIN orders
          /\ (res'.req.orderId \in DOMAIN orders) => res'.status \in {200, 500}
      ]_vars

\* C3: DELETE /products/:productId of an existing product responds 200 with
\* the product's last stored state and removes exactly that product; of an
\* identifier that resolves to nothing it responds 404 and changes nothing;
\* an identifier once deleted never resolves again, so a second DELETE is 404.
C3_DeleteProduct ==
    [][ /\ Answered("DELETE /products") =>
             LET id == res'.req.productId IN
             /\ res'.status \in {200, 404, 500}
             /\ res'.status = 200 =>
                  /\ id \in DOMAIN products
                  /\ res'.docs = <<Doc(id, products[id])>>
                  /\ DOMAIN products' = DOMAIN products \ {id}
                  /\ Extends(products', products)
             /\ res'.status = 404 => id \notin DOMAIN products
             /\ res'.status # 200 => products' = products
             /\ (id \in DOMAIN products) => res'.status \in {200, 500}
        /\ \A id \in 1..lastProductId :
             id \notin DOMAIN products => id \notin DOMAIN products'
      ]_vars

\* C3 witness: the second DELETE of an identifier that was allocated and has
\* been deleted is answered 404, other products still stored.
C3_Witness ==
    /\ res.req.route = "DELETE /products"
    /\ res.status = 404
    /\ res.req.productId \in 1..lastProductId
    /\ res.req.productId \notin DOMAIN products
    /\ DOMAIN products # {}

\* C4: PUT /products/:productId of an identifier that resolves to nothing
\* responds 404 and leaves products unchanged; of an existing identifier it
\* responds 200 with the record whose name, quantity, price and image are the
\* submitted ones, which is the record then stored; no other record changes.
C4_PutProduct ==
    [][ Answered("PUT /products") =>
          LET id == res'.req.productId
              body == res'.req.body
          IN
          /\ res'.status \in {200, 404, 500}
          /\ res'.status = 404 => id \notin DOMAIN products
          /\ res'.status # 200 => products' = products
          /\ (id \in DOMAIN products) => res'.status \in {200, 500}
          /\ res'.status = 200 =>
               /\ id \in DOMAIN products
               /\ Len(res'.docs) = 1
               /\ res'.docs[1].id = id
               /\ res'.docs[1].name = body.name
               /\ res'.docs[1].quantity = body.quantity
               /\ res'.docs[1].price = body.price
               /\ res'.docs[1].image = body.image
               /\ DOMAIN products' = DOMAIN products
               /\ Doc(id, products'[id]) = res'.docs[1]
               /\ \A j \in DOMAIN products \ {id} : products'[j] = products[j]
      ]_vars

\* C4 witness: a PUT answered 200 that changed the stored record.
C4_Witness ==
    /\ res.req.route = "PUT /products"
    /\ res.status = 200
    /\ res.req.productId \in DOMAIN products
    /\ products[res.req.productId] = res.req.body
    /\ products[res.req.productId].name # ChanceWord(1, 1)

\* C5: a GET /add-initial-data answered 200 has added exactly 10 users and
\* then exactly 10 products, removing and replacing nothing; its only other
\* answer is 500, which adds no product.
C5_SeedingAddsTen ==
    [][ /\ \A k \in DOMAIN inflight' :
             Suspends(k, "GET /add-initial-data") =>
               /\ inflight'[k].pc = "insertProducts"
               /\ AddsExactly(users, users', 10)
               /\ products' = products
        /\ \A k \in DOMAIN inflight :
             (Completes(k) /\ inflight[k].req.route = "GET /add-initial-data") =>
               /\ inflight[k].pc = "insertProducts"
               /\ res'.req = inflight[k].req
               /\ res'.status \in {200, 500}
               /\ users' = users
               /\ res'.status = 200 => AddsExactly(products, products', 10)
               /\ res'.status = 500 => products' = products
        /\ Answered("GET /add-initial-data") =>
             res'.status = 500 /\ users' = users /\ products' = products
      ]_vars

\* C5 witness: two seedings of the empty database answered 200 have left 20
\* users and 20 products.
C5_Witness ==
    /\ res.req.route = "GET /add-initial-data"
    /\ res.status = 200
    /\ Cardinality(DOMAIN users) = 20
    /\ Cardinality(DOMAIN products) = 20
    /\ lastProductId = 20

IndexOf(seq, x) == CHOOSE i \in 1..Len(seq) : seq[i] = x

\* C8: 'listening' is logged only after 'connected'; when the connection
\* attempt has failed the listener is never started and no request is taken;
\* no request is taken before the listener runs.
C8_ListenAfterConnect ==
    LET connected == \E i \in 1..Len(log) : log[i] = "connected to MongoDB"
        listening == \E i \in 1..Len(log) : log[i] = "Node API app is running on port 3000"
        failed    == \E i \in 1..Len(log) : log[i] = "error"
    IN  /\ listening =>
             /\ connected
             /\ IndexOf(log, "connected to MongoDB")
                  < IndexOf(log, "Node API app is running on port 3000")
        /\ failed => ~listening /\ boot = "failed"
        /\ (reqs > 0 \/ res.req.route # "none" \/ DOMAIN inflight # {}) => listening
        /\ boot = "listening" <=> listening

\* C8 witness: the listener runs, after the connection, and has answered.
C8_Witness ==
    /\ boot = "listening"
    /\ Len(log) = 2
    /\ res.status = 200

\* C9: a create-order request whose product was deleted after its lookups
\* still writes its Order and responds 201 (unless the write itself fails):
\* the Order then references a product that does not exist.
C9_RaceStillCreates ==
    [][ \A k \in DOMAIN inflight :
          LET c == inflight[k] IN
          ( /\ IsCreateOrder(c)
            /\ c.pc = "save"
            /\ c.req.productId \notin DOMAIN products
            /\ Completes(k) ) =>
              /\ res'.status \in {201, 500}
              /\ res'.status = 201 =>
                   /\ OneNewOrder(orders, orders', c.req)
                   /\ c.req.productId \notin DOMAIN products'
      ]_vars

\* C9 witness: the last response is the 201 of a create-order whose order is
\* stored and whose product is absent: the product was deleted between the
\* lookups and the write.
C9_Witness ==
    /\ res.req.route = "POST /create-order"
    /\ res.status = 201
    /\ res.req.productId \notin DOMAIN products
    /\ \E id \in DOMAIN orders : orders[id].productId = res.req.productId

\* The claim's reading of a query parameter that is a count: absent, it is
\* the default; a decimal number, it is that number.
IsCount(s) == \A i \in 1..Len(s) : IsDigit(s[i])

CountOr(s, default) == IF s = <<>> THEN default ELSE DecimalValue(s)

\* name contains sub, ignoring case.
ContainsIgnoringCase(name, sub) ==
    \E at \in 0..(Len(name) - Len(sub)) :
        \A i \in 1..Len(sub) : LowerCase(sub[i]) = LowerCase(name[at + i])

\* The products the query q selects.
Selected(q) ==
    {id \in DOMAIN products :
        q.search # <<>> => ContainsIgnoringCase(products[id].name, q.search)}

\* page is the elements skip+1 .. skip+limit of the selected products in an
\* ascending order on the field.
IsPageOf(page, q) ==
    LET field == IF q.sort = "" THEN "name" ELSE q.sort
        skip  == CountOr(q.skip, 0)
        limit == CountOr(q.limit, 10)
        sel   == Selected(q)
        rest  == IF Cardinality(sel) > skip THEN Cardinality(sel) - skip ELSE 0
    IN  /\ Len(page) = (IF limit < rest THEN limit ELSE rest)
        /\ Len(page) <= limit
        /\ \A i \in 1..Len(page) :
             /\ page[i].id \in sel
             /\ page[i] = Doc(page[i].id, products[page[i].id])
             /\ Cardinality({id \in sel : SortsBefore(products[id], page[i], field)})
                  <= skip + i - 1
             /\ Cardinality({id \in sel : ~SortsBefore(page[i], products[id], field)})
                  >= skip + i
        /\ \A i, j \in 1..Len(page) :
             i < j => page[i].id # page[j].id /\ ~SortsBefore(page[j], page[i], field)

\* C6 as claimed: a GET /products answered 200 returns exactly the elements
\* skip+1 .. skip+limit of the products whose name contains the search
\* substring (ignoring case), in ascending order of the sort field, with the
\* defaults sort=name, skip=0, limit=10; the page has at most limit elements
\* and products is unchanged.
C6_PageIsTheSlice ==
    [][ ( /\ Answered("GET /products")
          /\ res'.status = 200
          /\ IsCount(res'.req.skip)
          /\ IsCount(res'.req.limit) ) =>
            /\ IsPageOf(res'.docs, res'.req)
            /\ products' = products
      ]_vars

RECURSIVE SumOfPrices(_)
SumOfPrices(ids) ==
    IF ids = {} THEN 0
    ELSE LET id == CHOOSE x \in ids : TRUE
         IN  products[id].price + SumOfPrices(ids \ {id})

\* The object o holds the statistics of the (non-empty) products collection.
IsStatisticOf(o) ==
    LET ids   == DOMAIN products
        names == {products[id].name : id \in ids}
    IN  /\ o.totalPrice = SumOfPrices(ids)
        /\ \E id \in ids : products[id].price = o.minPrice
        /\ \A id \in ids : products[id].price >= o.minPrice
        /\ \E id \in ids : products[id].price = o.maxPrice
        /\ \A id \in ids : products[id].price <= o.maxPrice
        /\ o.avgPrice.den > 0
        /\ o.avgPrice.num * Cardinality(ids) = o.totalPrice * o.avgPrice.den
        /\ {o.uniqueNames[i] : i \in 1..Len(o.uniqueNames)} = names
        /\ Len(o.uniqueNames) = Cardinality(names)

\* C7 as claimed: for every content of products, GET /products-statistic
\* answered 200 returns a list of exactly one object with the statistics.
C7_AlwaysOneObject ==
    [][ (Answered("GET /products-statistic") /\ res'.status = 200) =>
          /\ Len(res'.docs) = 1
          /\ DOMAIN products # {} => IsStatisticOf(res'.docs[1])
      ]_vars

\* C7 amended: GET /products-statistic answers 200 (500 when the database
\* call fails); for a non-empty products collection the list holds exactly
\* one object, whose totalPrice is the sum of the prices, minPrice and
\* maxPrice the smallest and largest price, avgPrice totalPrice divided by the
\* number of products, and uniqueNames each name once; for an empty
\* collection the list is empty.
C7_OneObjectUnlessEmpty ==
    [][ Answered("GET /products-statistic") =>
          /\ res'.status \in {200, 500}
          /\ products' = products
          /\ res'.status = 200 =>
               IF DOMAIN products = {}
               THEN res'.docs = <<>>
               ELSE Len(res'.docs) = 1 /\ IsStatisticOf(res'.docs[1])
      ]_vars

\* C7 witness: statistics answered over products of different prices, two of
\* which share a name.
C7_Witness ==
    /\ res.req.route = "GET /products-statistic"
    /\ res.status = 200
    /\ Len(res.docs) = 1
    /\ res.docs[1].minPrice < res.docs[1].maxPrice
    /\ Len(res.docs[1].uniqueNames) < Cardinality(DOMAIN products)

ProductRoutes ==
    {"POST /products", "GET /products-list", "PUT /products", "DELETE /products",
     "GET /products", "GET /products-statistic"}

\* C10: no step removes or changes a User or an Order; users are added only
\* by the seeding and orders only by a create-order answered 201; a product
\* route leaves users and orders unchanged; every Order's userId is the
\* identifier of a stored user.
C10_UsersAndOrdersOnlyGrow ==
    /\ [](\A id \in DOMAIN orders : orders[id].userId \in DOMAIN users)
    /\ [][ /\ Extends(users, users')
           /\ Extends(orders, orders')
           /\ users' # users =>
                \E k \in DOMAIN inflight' : Suspends(k, "GET /add-initial-data")
           /\ orders' # orders =>
                \E k \in DOMAIN inflight :
                   Completes(k) /\ IsCreateOrder(inflight[k]) /\ res'.status = 201
           /\ \A r \in ProductRoutes :
                Answered(r) => users' = users /\ orders' = orders
         ]_vars

\* C10 witness: a product that an order references has been deleted, and the
\* order and its user are still stored.
C10_Witness ==
    /\ res.req.route = "DELETE /products"
    /\ res.status = 200
    /\ \E id \in DOMAIN orders :
         /\ orders[id].productId = res.req.productId
         /\ orders[id].userId \in DOMAIN users
====
